---- MODULE Spec2Model ----
(***************************************************************************)
(* Model of render-engine's Page.                                          *)
(*                                                                         *)
(*   render_engine/page.py      the flat-layout module: parse_content and  *)
(*                              a Page whose identity is computed in       *)
(*                              __init__ ("legacy" below)                  *)
(*   src/render_engine/page.py  the src-layout module: a Page with lazy    *)
(*                              title/slug/url properties and              *)
(*                              _render_content                            *)
(*   tests/test_collection      the tests of Collection                    *)
(*                                                                         *)
(* A Python string is a sequence of one-character strings; a Python value  *)
(* is tagged with its type.                                                *)
(***************************************************************************)
EXTENDS Integers, Sequences, FiniteSets, TLC

VARIABLES
    kind,   \* which class the behaviour exercises: "legacy" or "page" or "collection"
    cls,    \* the class-level attributes of the variant (subclass) in use
    src,    \* the input of construction
    obj,    \* the instance: NotConstructed, or its __dict__ and construction error
    out,    \* what the last call returned or raised
    hist    \* history of the instance: calls made since construction

vars == <<kind, cls, src, obj, out, hist>>

\* Bounds of the model.
MaxLines == 3
MaxAttrs == 2
MaxDocs == 3

None == "<None>"
NotConstructed == [error |-> "<not constructed>"]
NoOut == [op |-> "<none>"]
NoHist == [n |-> 0]

Str(s) == [t |-> "str", v |-> s]
List(l) == [t |-> "list", v |-> l]
Bool(b) == [t |-> "bool", v |-> b]

------------------------------------------------------------------------------
(* Python's str methods, on sequences of characters. *)

ToLower(c) ==
    CASE c = "A" -> "a" [] c = "B" -> "b" [] c = "H" -> "h" [] c = "M" -> "m"
      [] c = "N" -> "n" [] c = "P" -> "p" [] c = "T" -> "t" [] OTHER -> c

UpperChars == {"A", "B", "H", "M", "N", "P", "T"}
LowerChars == {"a", "b", "c", "d", "e", "g", "h", "i", "l", "m", "n", "o", "p",
               "s", "t", "u", "x", "y"}
\* \w of the re module
WordChars == UpperChars \cup LowerChars \cup {"_"}
\* str.strip() strips whitespace
Whitespace == {" ", "\n"}

lower(s) == [i \in 1..Len(s) |-> ToLower(s[i])]

RECURSIVE lstrip(_)
lstrip(s) ==
    IF s = <<>> THEN s
    ELSE IF Head(s) \in Whitespace THEN lstrip(Tail(s)) ELSE s

RECURSIVE rstrip(_)
rstrip(s) ==
    IF s = <<>> THEN s
    ELSE IF s[Len(s)] \in Whitespace THEN rstrip(SubSeq(s, 1, Len(s) - 1)) ELSE s

strip(s) == rstrip(lstrip(s))

\* str.find, 1-based; 0 when sep does not occur at or after i
RECURSIVE find(_, _, _)
find(s, sep, i) ==
    IF i + Len(sep) - 1 > Len(s) THEN 0
    ELSE IF SubSeq(s, i, i + Len(sep) - 1) = sep THEN i
    ELSE find(s, sep, i + 1)

\* str.split(sep)
RECURSIVE split(_, _)
split(s, sep) ==
    LET i == find(s, sep, 1) IN
    IF i = 0 THEN <<s>>
    ELSE <<SubSeq(s, 1, i - 1)>> \o split(SubSeq(s, i + Len(sep), Len(s)), sep)

\* str.replace(a, b) for one-character a and b
replace(s, a, b) == [i \in 1..Len(s) |-> IF s[i] = a THEN b ELSE s[i]]

\* re.sub(r'[...]', '', s): the characters of s outside `chars`
RECURSIVE re_sub_remove(_, _)
re_sub_remove(chars, s) ==
    IF s = <<>> THEN s
    ELSE IF Head(s) \in chars THEN re_sub_remove(chars, Tail(s))
    ELSE <<Head(s)>> \o re_sub_remove(chars, Tail(s))

RECURSIVE join(_, _)
join(parts, sep) ==
    IF parts = <<>> THEN <<>>
    ELSE IF Len(parts) = 1 THEN parts[1]
    ELSE parts[1] \o sep \o join(Tail(parts), sep)

SEP == <<":", " ">>
COMMA == <<",", " ">>
NL == <<"\n">>

\* names of attributes
n_title == <<"t", "i", "t", "l", "e">>
n_slug == <<"s", "l", "u", "g">>
n_tags == <<"t", "a", "g", "s">>
n_name == <<"n", "a", "m", "e">>
n_url == <<"u", "r", "l">>
n_content == <<"c", "o", "n", "t", "e", "n", "t">>
n_html == <<"h", "t", "m", "l">>
n__content == <<"_">> \o n_content
n__title == <<"_">> \o n_title
n__slug == <<"_">> \o n_slug
n_no_index == <<"n", "o", "_", "i", "n", "d", "e", "x">>

\* an object's attributes: a function from the names that are set
setattr(d, name, value) ==
    [n \in DOMAIN d \cup {name} |-> IF n = name THEN value ELSE d[n]]
NoAttrs == [n \in {} |-> Str(<<>>)]

------------------------------------------------------------------------------
(* render_engine/page.py *)

\* the length of the longest prefix of s made of \w characters
RECURSIVE WordPrefix(_)
WordPrefix(s) ==
    IF s = <<>> \/ Head(s) \notin WordChars THEN 0 ELSE 1 + WordPrefix(Tail(s))

\* (^\w+: \b.+$) with re.M matches whole lines: a word, ": ", then a rest
\* that starts with a word character (\b after the space)
base_matcher(line) ==
    LET k == WordPrefix(line) IN
    /\ k >= 1
    /\ Len(line) >= k + 3
    /\ line[k + 1] = ":"
    /\ line[k + 2] = " "
    /\ line[k + 3] \in WordChars

\* re.split(matcher, content) with one capturing group: the text between the
\* matches and the matches themselves, alternating. `cur` is the text since the
\* last match.
RECURSIVE re_split(_, _)
re_split(lines, cur) ==
    IF lines = <<>> THEN <<cur>>
    ELSE LET l == Head(lines)
             rest == Tail(lines)
             nl == IF rest = <<>> THEN <<>> ELSE NL
         IN  IF base_matcher(l) THEN <<cur, l>> \o re_split(rest, nl)
             ELSE re_split(rest, cur \o l \o nl)

parse_content(content) ==
    LET parsed_content == re_split(split(content, NL), <<>>)
        n == Len(parsed_content)
    IN  [attrs |-> SelectSeq(SubSeq(parsed_content, 1, n - 1),
                             LAMBDA x : strip(x) # <<>>),
         content |-> strip(parsed_content[n])]

\* class attributes of the legacy Page
legacy_list_attrs == {n_tags}
legacy_routes0 == <<>>
\* properties without a setter
legacy_readonly == {n_content, n_html}

\* the loop of __init__ over valid_attrs, stopping at the first exception
RECURSIVE legacy_set_attrs(_, _)
legacy_set_attrs(valid_attrs, self) ==
    IF valid_attrs = <<>> THEN [error |-> None, d |-> self]
    ELSE LET attr == Head(valid_attrs)
             i == find(attr, SEP, 1)
             name == SubSeq(attr, 1, i - 1)
             raw == SubSeq(attr, i + 2, Len(attr))
             value == IF lower(name) \in legacy_list_attrs
                      THEN List([j \in 1..Len(split(raw, COMMA)) |->
                                    lower(split(raw, COMMA)[j])])
                      ELSE Str(strip(raw))
         IN  IF i = 0 THEN [error |-> "ValueError", d |-> self]
             ELSE IF lower(name) \in legacy_readonly
             THEN [error |-> "AttributeError", d |-> self]
             ELSE legacy_set_attrs(Tail(valid_attrs),
                                   setattr(self, lower(name), value))

\* getattr(self, name, default): the instance's attribute, else the class's
legacy_getattr(c, self, name, default) ==
    IF name \in DOMAIN self THEN self[name]
    ELSE IF name \in DOMAIN c.attrs THEN c.attrs[name]
    ELSE default

legacy_hasattr(c, self, name) == name \in DOMAIN self \/ name \in DOMAIN c.attrs

legacy_strip_chars == {"!", "[", "]", "(", ")"}

\* mutant: the slug is not lower-cased
legacy_slugify_keep_case(s) ==
    re_sub_remove(legacy_strip_chars, replace(s, " ", "_"))

legacy_slugify(s) ==
    re_sub_remove(legacy_strip_chars, replace(lower(s), " ", "_"))

\* Page.__init__(content=content) of class c
legacy_Page_init(c, content) ==
    LET parsed == parse_content(content)
        d0 == setattr(setattr(NoAttrs, n_no_index, Bool(FALSE)),
                      n__content, Str(parsed.content))
        looped == legacy_set_attrs(parsed.attrs, d0)
        d1 == looped.d
        d2 == IF legacy_hasattr(c, d1, n_title) THEN d1
              ELSE LET nm == legacy_getattr(c, d1, n_name, Str(<<>>)) IN
                   setattr(d1, n_title,
                           IF nm.v # <<>> THEN nm ELSE Str(c.name))
        d3 == IF legacy_hasattr(c, d2, n_slug) THEN d2
              ELSE setattr(d2, n_slug, legacy_getattr(c, d2, n_title, Str(c.name)))
        slug == legacy_getattr(c, d3, n_slug, Str(<<>>))
        d4 == setattr(d3, n_slug, Str(legacy_slugify(slug.v)))
        d5 == setattr(d4, n_url, Str(legacy_routes0 \o <<"/">> \o d4[n_slug].v))
    IN  IF looped.error # None THEN [error |-> looped.error, d |-> d1]
        ELSE IF slug.t # "str" THEN [error |-> "AttributeError", d |-> d3]
        ELSE [error |-> None, d |-> d5]

\* the lines documents are made of
LegacyLines ==
    { <<"T", "i", "t", "l", "e", ":", " ", "H", "i", " ", "(", "A", ")", "!", " ">>,
      <<"t", "a", "g", "s", ":", " ", "a", ",", " ", "B">>,
      <<"n", "a", "m", "e", ":", " ", "N", "a", "b">>,
      <<"s", "l", "u", "g", ":", " ", "M", "y", " ", "[", "A", "]">>,
      <<"n", "o", "t", "e", ":", " ", "x">>,
      <<"B", "o", "d", "y", "!">>,
      <<>> }

RECURSIVE DocsOf(_)
DocsOf(n) ==
    IF n = 0 THEN {<<>>}
    ELSE DocsOf(n - 1) \cup
         {l \o NL \o d : l \in LegacyLines, d \in DocsOf(n - 1)}

LegacyDocs == DocsOf(MaxLines)

\* variants of the legacy Page: the base class and subclasses that set
\* `title` or `name`
LegacyClasses ==
    { [name |-> <<"P", "a", "g", "e">>, attrs |-> NoAttrs],
      [name |-> <<"P", "o", "s", "t">>,
       attrs |-> setattr(NoAttrs, n_name, Str(<<"M", "y", " ", "P", "o", "s", "t">>))],
      [name |-> <<"H", "o", "m", "e">>,
       attrs |-> setattr(NoAttrs, n_title, Str(<<"A", "t", " ", "H", "o", "m", "e">>))] }

LegacyInit ==
    /\ kind = "legacy"
    /\ cls \in LegacyClasses
    /\ src \in LegacyDocs
    /\ obj = NotConstructed
    /\ out = NoOut
    /\ hist = NoHist

\* parse_content(src)
LegacyParseContent ==
    /\ kind = "legacy"
    /\ out' = [op |-> "parse_content", result |-> parse_content(src)]
    /\ UNCHANGED <<kind, cls, src, obj, hist>>

\* cls(content=src)
LegacyPageInit ==
    /\ kind = "legacy"
    /\ obj = NotConstructed
    /\ obj' = legacy_Page_init(cls, src)
    /\ out' = [op |-> "__init__", result |-> obj'.error]
    /\ UNCHANGED <<kind, cls, src, hist>>

------------------------------------------------------------------------------
(* src/render_engine/page.py *)

n_template == <<"t", "e", "m", "p", "l", "a", "t", "e">>
n_engine == <<"e", "n", "g", "i", "n", "e">>
n_extension == <<"e", "x", "t", "e", "n", "s", "i", "o", "n">>
n_list_attrs == <<"l", "i", "s", "t", "_", "a", "t", "t", "r", "s">>
n_invalid_attrs == <<"i", "n", "v", "a", "l", "i", "d", "_", "a", "t", "t", "r", "s">>
n_template_vars == <<"t", "e", "m", "p", "l", "a", "t", "e", "_", "v", "a", "r", "s">>
n_to_dict == <<"t", "o", "_", "d", "i", "c", "t">>
n_markup == <<"m", "a", "r", "k", "u", "p">>
n__extension == <<"_">> \o n_extension
n_note == <<"n", "o", "t", "e">>

PyNone == [t |-> "none", v |-> <<>>]
Dict(d) == [t |-> "dict", v |-> d]

\* python-slugify's slugify(text) with its defaults: lower-case, every run of
\* characters outside [-a-z0-9] becomes one "-", dashes at the ends are dropped
SlugChars == LowerChars \cup {"-"}

RECURSIVE slugify_collapse(_)
slugify_collapse(s) ==
    IF Len(s) < 2 THEN s
    ELSE IF s[1] = "-" /\ s[2] = "-" THEN slugify_collapse(Tail(s))
    ELSE <<s[1]>> \o slugify_collapse(Tail(s))

RECURSIVE slugify_strip(_)
slugify_strip(s) ==
    IF s = <<>> THEN s
    ELSE IF Head(s) = "-" THEN slugify_strip(Tail(s))
    ELSE IF s[Len(s)] = "-" THEN slugify_strip(SubSeq(s, 1, Len(s) - 1))
    ELSE s

slugify(text) ==
    slugify_strip(slugify_collapse(
        [i \in 1..Len(text) |->
            IF ToLower(text[i]) \in SlugChars THEN ToLower(text[i]) ELSE "-"]))

\* bool(value)
truthy(value) ==
    CASE value.t = "none" -> FALSE
      [] value.t = "bool" -> value.v
      [] value.t = "dict" -> DOMAIN value.v # {}
      [] OTHER -> value.v # <<>>

\* hasattr / getattr on an instance with __dict__ d of class c
hasattr(c, d, name) == name \in DOMAIN d \/ name \in DOMAIN c.attrs
getattr(c, d, name, default) ==
    IF name \in DOMAIN d THEN d[name]
    ELSE IF name \in DOMAIN c.attrs THEN c.attrs[name]
    ELSE default

\* Page.title (getter)
Page_title(c, d) ==
    IF n__title \notin DOMAIN d THEN Str(c.name) ELSE d[n__title]

\* mutant: the setter stores under `title`, not under the backing `_title`
Page_title_set_public_name(d, value) == setattr(d, n_title, value)

\* Page.title (setter)
Page_title_set(d, value) == setattr(d, n__title, value)

\* Page.slug (getter): the value returned and the __dict__ it leaves
Page_slug(c, d) ==
    LET d1 == IF n__slug \notin DOMAIN d THEN setattr(d, n__slug, Page_title(c, d))
              ELSE d
    IN  [value |-> Str(slugify(d1[n__slug].v)), d |-> d1]

\* Page.slug (setter)
Page_slug_set(d, value) == setattr(d, n__slug, Str(slugify(value.v)))

\* Page._extension
Page__extension(c, d) ==
    LET extension == getattr(c, d, n_extension, PyNone).v IN
    IF extension = <<>> \/ Head(extension) # "." THEN <<".">> \o extension
    ELSE extension

\* Page.url: the value returned and the __dict__ it leaves
Page_url(c, d) ==
    LET s == Page_slug(c, d) IN
    [value |-> Str(s.value.v \o Page__extension(c, d)), d |-> s.d]

\* mutant: the earlier mapping wins a key collision
merge_first_wins(a, b) ==
    [n \in DOMAIN a \cup DOMAIN b |-> IF n \in DOMAIN a THEN a[n] ELSE b[n]]

\* {**a, **b}
merge(a, b) ==
    [n \in DOMAIN a \cup DOMAIN b |-> IF n \in DOMAIN b THEN b[n] ELSE a[n]]

\* Page.to_dict: vars(self) is copied before the slug getter runs
Page_to_dict(c, d) ==
    LET s == Page_slug(c, d)
        tv == getattr(c, d, n_template_vars, Dict(NoAttrs)).v
    IN  [value |-> setattr(setattr(merge(d, tv), n_title, Page_title(c, d)),
                           n_slug, s.value),
         d |-> s.d]

\* Parser.markup(self, content): the external text-to-markup converter
Parser_markup(content) == [t |-> "markup", v |-> content.v]

\* Page.markup
Page_markup(c, d) ==
    IF hasattr(c, d, n_content) THEN Parser_markup(getattr(c, d, n_content, PyNone))
    ELSE PyNone

\* engine.get_template(template).render(**context): the templating service
engine_render(engine, template, context) ==
    [t |-> "rendered", v |-> [engine |-> engine.v, template |-> template.v,
                               context |-> context]]

\* Page._render_content(engine, **kwargs): what it returns or raises, the
\* services it called and the __dict__ it leaves
Page__render_content(c, d, engine_arg, kwargs) ==
    LET engine == getattr(c, d, n_engine, engine_arg)
        template == getattr(c, d, n_template, PyNone)
        td == Page_to_dict(c, d)
    IN  IF ~hasattr(c, d, n_template)
        THEN [error |-> "AttributeError", value |-> PyNone, calls |-> {}, d |-> d]
        ELSE IF truthy(template) /\ truthy(engine)
        THEN IF hasattr(c, d, n_content)
             THEN [error |-> None,
                   value |-> engine_render(engine, template,
                       merge(merge(td.value,
                                   setattr(NoAttrs, n_content, Page_markup(c, td.d))),
                             kwargs)),
                   calls |-> {"markup", "template"},
                   d |-> td.d]
             ELSE [error |-> None,
                   value |-> engine_render(engine, template, merge(td.value, kwargs)),
                   calls |-> {"template"},
                   d |-> td.d]
        ELSE IF hasattr(c, d, n_content)
        THEN [error |-> None, value |-> Page_markup(c, d), calls |-> {"markup"},
              d |-> d]
        ELSE [error |-> "ValueError", value |-> PyNone, calls |-> {}, d |-> d]

\* properties of Page without a setter
Page_readonly == {n_url, n__extension, n_to_dict, n_markup}

\* setattr(self, name, value) in __init__: through the property setters
Page_setattr(d, name, value) ==
    IF name = n_title THEN Page_title_set(d, value)
    ELSE IF name = n_slug THEN Page_slug_set(d, value)
    ELSE setattr(d, name, value)

\* the loop of __init__ over attrs.items()
RECURSIVE Page_set_attrs(_, _, _)
Page_set_attrs(c, attrs, d) ==
    IF attrs = <<>> THEN [error |-> None, d |-> d]
    ELSE LET lname == lower(attrs[1][1])
             invalid_attrs == getattr(c, d, n_invalid_attrs, List(<<>>)).v
             name == IF \E i \in 1..Len(invalid_attrs) : invalid_attrs[i] = lname
                     THEN <<"_">> \o lname ELSE lname
             list_attrs == getattr(c, d, n_list_attrs, List(<<>>)).v
             raw == attrs[1][2]
             value == IF \E i \in 1..Len(list_attrs) : list_attrs[i] = name
                      THEN List([j \in 1..Len(split(raw, COMMA)) |->
                                    lower(split(raw, COMMA)[j])])
                      ELSE Str(raw)
         IN  IF name \in Page_readonly THEN [error |-> "AttributeError", d |-> d]
             ELSE Page_set_attrs(c, Tail(attrs), Page_setattr(d, name, value))

\* Page.__init__(content): `content` is None or what Parser.parse_content
\* returns for it, the pairs of attrs in order and the body
Page_init(c, content) ==
    IF content.t = "none" THEN [error |-> None, d |-> NoAttrs]
    ELSE Page_set_attrs(c, content.v.attrs,
                        setattr(NoAttrs, n_content, Str(content.v.content)))

\* the class attributes Page declares with a value
PageDefaults ==
    setattr(setattr(NoAttrs, n_extension, Str(<<".", "h", "t", "m", "l">>)),
            n_invalid_attrs, List(<<n_slug>>))

t_html == <<"t", ".", "h", "t", "m", "l">>

\* variants of Page: the base class and subclasses setting class attributes
PageClasses ==
    { [name |-> <<"P", "a", "g", "e">>, attrs |-> PageDefaults],
      [name |-> <<"H", "o", "m", "e">>,
       attrs |-> setattr(PageDefaults, n_template, Str(t_html))],
      [name |-> <<"B", "a", "r", "e">>,
       attrs |-> setattr(PageDefaults, n_template, PyNone)],
      [name |-> <<"P", "o", "s", "t">>,
       attrs |-> setattr(setattr(setattr(setattr(setattr(PageDefaults,
                    n_template, Str(t_html)),
                    n_engine, Str(<<"e", "n", "v">>)),
                    n_list_attrs, List(<<n_tags>>)),
                    n_extension, Str(<<"x", "m", "l">>)),
                    n_template_vars,
                    Dict(setattr(setattr(NoAttrs, n_title, Str(<<"T", "V">>)),
                                 n_note, Str(<<"t", "v">>))))] }

\* header attributes a parsed document may carry
PageAttrs ==
    { <<<<"T", "i", "t", "l", "e">>, <<"H", "i", " ", "(", "A", ")", "!">>>>,
      <<n_slug, <<"M", "y", " ", "[", "A", "]">>>>,
      <<n_tags, <<"a", ",", " ", "B">>>>,
      <<n_note, <<"x">>>> }

RECURSIVE AttrSeqs(_)
AttrSeqs(n) ==
    IF n = 0 THEN {<<>>}
    ELSE AttrSeqs(n - 1) \cup
         {<<p[1]>> \o p[2] :
             p \in {q \in PageAttrs \X AttrSeqs(n - 1) :
                       \A i \in 1..Len(q[2]) : q[2][i][1] # q[1][1]}}

PageBodies == {<<>>, <<"B", "o", "d", "y", "!">>}

PageContents ==
    {PyNone} \cup
    {[t |-> "parsed", v |-> [attrs |-> a, content |-> b]] :
        a \in AttrSeqs(MaxAttrs), b \in PageBodies}

\* values assigned to title and slug after construction
Titles == {Str(<<"N", "e", "w", " ", "(", "B", ")">>), Str(<<"a", "_", "b">>)}
Slugs == {Str(<<"M", "y", " ", "[", "A", "]">>)}

\* engines and keyword arguments passed to _render_content
Engines == {PyNone, Str(<<"a", "r", "g">>)}
Kwargs ==
    { NoAttrs,
      setattr(NoAttrs, n_title, Str(<<"K", "T">>)),
      setattr(setattr(setattr(NoAttrs, n_content, Str(<<"K", "C">>)),
                      n_slug, Str(<<"K", "S">>)),
              n_note, Str(<<"K", "N">>)) }

PageInit ==
    /\ kind = "page"
    /\ cls \in PageClasses
    /\ src \in PageContents
    /\ obj = NotConstructed
    /\ out = NoOut
    /\ hist = NoHist

Constructed == obj.error = None

\* cls(content=src)
PageConstruct ==
    /\ kind = "page"
    /\ obj = NotConstructed
    /\ obj' = Page_init(cls, src)
    /\ out' = [op |-> "__init__", error |-> obj'.error]
    /\ hist' = [slug_read |-> FALSE,
                slug_set |-> n__slug \in DOMAIN obj'.d,
                title_set |-> PyNone,
                before |-> NoAttrs]
    /\ UNCHANGED <<kind, cls, src>>

\* page.title
GetTitle ==
    /\ kind = "page" /\ Constructed
    /\ out' = [op |-> "title", error |-> None, value |-> Page_title(cls, obj.d)]
    /\ hist' = [hist EXCEPT !.before = obj.d]
    /\ UNCHANGED <<kind, cls, src, obj>>

\* page.title = value
SetTitle ==
    /\ kind = "page" /\ Constructed
    /\ \E value \in Titles :
        /\ obj' = [obj EXCEPT !.d = Page_title_set(obj.d, value)]
        /\ out' = [op |-> "title=", error |-> None, value |-> value]
        /\ hist' = [hist EXCEPT !.title_set = value, !.before = obj.d]
    /\ UNCHANGED <<kind, cls, src>>

\* page.slug = value
SetSlug ==
    /\ kind = "page" /\ Constructed
    /\ \E value \in Slugs :
        /\ obj' = [obj EXCEPT !.d = Page_slug_set(obj.d, value)]
        /\ out' = [op |-> "slug=", error |-> None, value |-> value]
        /\ hist' = [hist EXCEPT !.slug_set = TRUE, !.before = obj.d]
    /\ UNCHANGED <<kind, cls, src>>

\* page.slug
GetSlug ==
    /\ kind = "page" /\ Constructed
    /\ LET r == Page_slug(cls, obj.d) IN
        /\ obj' = [obj EXCEPT !.d = r.d]
        /\ out' = [op |-> "slug", error |-> None, value |-> r.value,
                   first |-> ~hist.slug_read]
    /\ hist' = [hist EXCEPT !.slug_read = TRUE, !.before = obj.d]
    /\ UNCHANGED <<kind, cls, src>>

\* page.url
GetUrl ==
    /\ kind = "page" /\ Constructed
    /\ LET r == Page_url(cls, obj.d) IN
        /\ obj' = [obj EXCEPT !.d = r.d]
        /\ out' = [op |-> "url", error |-> None, value |-> r.value,
                   first |-> ~hist.slug_read]
    /\ hist' = [hist EXCEPT !.slug_read = TRUE, !.before = obj.d]
    /\ UNCHANGED <<kind, cls, src>>

\* page.to_dict
ToDict ==
    /\ kind = "page" /\ Constructed
    /\ LET r == Page_to_dict(cls, obj.d) IN
        /\ obj' = [obj EXCEPT !.d = r.d]
        /\ out' = [op |-> "to_dict", error |-> None, value |-> r.value]
    /\ hist' = [hist EXCEPT !.slug_read = TRUE, !.before = obj.d]
    /\ UNCHANGED <<kind, cls, src>>

\* page._render_content(engine, **kwargs)
Render ==
    /\ kind = "page" /\ Constructed
    /\ \E engine \in Engines, kwargs \in Kwargs :
        LET r == Page__render_content(cls, obj.d, engine, kwargs) IN
        /\ obj' = [obj EXCEPT !.d = r.d]
        /\ out' = [op |-> "render", error |-> r.error, value |-> r.value,
                   calls |-> r.calls, engine |-> engine, kwargs |-> kwargs]
        /\ hist' = [hist EXCEPT !.slug_read = @ \/ "template" \in r.calls,
                                 !.before = obj.d]
    /\ UNCHANGED <<kind, cls, src>>

------------------------------------------------------------------------------
(* Collection, as the specification and tests/test_collection describe it *)

n_content_type == <<"c", "o", "n", "t", "e", "n", "t", "_", "t", "y", "p", "e">>
n_content_path == <<"c", "o", "n", "t", "e", "n", "t", "_", "p", "a", "t", "h">>
n_foo == <<"f", "o", "o">>
collection_prefix == <<"c", "o", "l", "l", "e", "c", "t", "i", "o", "n", "_">>

Path(p) == [t |-> "path", v |-> p]

\* mutant: the title is always the class name
Collection_title_class_name(c) == Str(c.name)

\* Collection.title: the explicit title, else the class name
Collection_title(c) ==
    IF n_title \in DOMAIN c.attrs THEN c.attrs[n_title] ELSE Str(c.name)

\* Collection.content_type: the Page variant, the base Page when not overridden
Collection_content_type(c) ==
    IF n_content_type \in DOMAIN c.attrs THEN c.attrs[n_content_type].v
    ELSE <<"P", "a", "g", "e">>

\* the fields a Collection hands to each of its pages, as collection_<field>
Collection_page_vars(c) ==
    LET fields == (DOMAIN c.attrs \ {n_content_type, n_content_path}) \cup {n_title}
    IN  [n \in {collection_prefix \o f : f \in fields} |->
            LET f == SubSeq(n, Len(collection_prefix) + 1, Len(n)) IN
            IF f = n_title THEN Collection_title(c) ELSE c.attrs[f]]

\* Collection.pages: one content_type Page per discovered document, keyed by
\* the document's location
Collection_pages(c, documents) ==
    [loc \in {documents[i] : i \in 1..Len(documents)} |->
        [type |-> Collection_content_type(c),
         d |-> setattr(Collection_page_vars(c), n_content_path, Path(loc))]]

\* the documents fake_path_0.md, fake_path_1.md, ... of the directory, by number
Locations == 0..(MaxDocs - 1)

RECURSIVE Discoveries(_)
Discoveries(n) ==
    IF n = 0 THEN {<<>>}
    ELSE Discoveries(n - 1) \cup
         {<<p[1]>> \o p[2] :
             p \in {q \in Locations \X Discoveries(n - 1) :
                       \A i \in 1..Len(q[2]) : q[2][i] # q[1]}}

CollectionClasses ==
    { [name |-> <<"M", "y", "C", "o", "l", "l", "e", "c", "t", "i", "o", "n">>,
       attrs |-> NoAttrs],
      [name |-> <<"C", "u", "s", "t", "o", "m">>,
       attrs |-> setattr(setattr(NoAttrs,
                    n_title, Str(<<"M", "y", " ", "C", "u", "s", "t", "o", "m",
                                   " ", "T", "i", "t", "l", "e">>)),
                    n_foo, Str(<<"b", "a", "r">>))],
      [name |-> <<"T", "y", "p", "e", "d">>,
       attrs |-> setattr(NoAttrs, n_content_type,
                         Str(<<"C", "u", "s", "t", "o", "m", "P", "a", "g", "e">>))] }

\* src: the documents discovered under content_path, or None when the path
\* does not exist
CollectionInit ==
    /\ kind = "collection"
    /\ cls \in CollectionClasses
    /\ src \in {PyNone} \cup {List(ds) : ds \in Discoveries(MaxDocs)}
    /\ obj = NotConstructed
    /\ out = NoOut
    /\ hist = NoHist

\* collection.pages: discovery on the first access, the same mapping afterwards
CollectionPages ==
    /\ kind = "collection"
    /\ obj' = IF obj # NotConstructed THEN obj
              ELSE IF src.t = "none" THEN [error |-> "ValueError"]
              ELSE [error |-> None, pages |-> Collection_pages(cls, src.v)]
    /\ out' = [op |-> "pages", error |-> obj'.error]
    /\ UNCHANGED <<kind, cls, src, hist>>

------------------------------------------------------------------------------

Init == LegacyInit \/ PageInit \/ CollectionInit

Next ==
    \/ LegacyParseContent
    \/ LegacyPageInit
    \/ PageConstruct
    \/ GetTitle
    \/ SetTitle
    \/ SetSlug
    \/ GetSlug
    \/ GetUrl
    \/ ToDict
    \/ Render
    \/ CollectionPages

Spec == Init /\ [][Next]_vars

------------------------------------------------------------------------------
(* Properties *)

HeaderNames(content) ==
    {lower(content.v.attrs[i][1]) : i \in 1..Len(content.v.attrs)}

HeaderValue(content, name) ==
    LET i == CHOOSE j \in 1..Len(content.v.attrs) :
                 lower(content.v.attrs[j][1]) = name
    IN  content.v.attrs[i][2]

\* C1: rendering a Page that has no content, no content path and no template
\* raises the render error (ValueError) whatever the engine and the keyword
\* arguments are: it returns nothing, raises no other exception and calls
\* neither the templating nor the markup service.
C1_RenderErrorOnly ==
    (/\ kind = "page"
     /\ out.op = "render"
     /\ src.t = "none"
     /\ ~hasattr(cls, obj.d, n_content)
     /\ \/ ~hasattr(cls, obj.d, n_template)
        \/ ~truthy(getattr(cls, obj.d, n_template, PyNone)))
    => /\ out.error = "ValueError"
       /\ out.value.t = "none"
       /\ out.calls = {}

\* The context C2 describes: for every key the keyword argument, else the
\* body markup under "content" when the page has content, else the derived
\* title and slug, else the page's own field.
ExpectedContext(c, d, kwargs) ==
    LET tv == getattr(c, d, n_template_vars, Dict(NoAttrs)).v
        body == hasattr(c, d, n_content)
        keys == DOMAIN kwargs \cup DOMAIN d \cup DOMAIN tv \cup {n_title, n_slug}
                \cup (IF body THEN {n_content} ELSE {})
    IN  [k \in keys |->
            IF k \in DOMAIN kwargs THEN kwargs[k]
            ELSE IF k = n_content /\ body
            THEN Parser_markup(getattr(c, d, n_content, PyNone))
            ELSE IF k = n_title
            THEN (IF n__title \in DOMAIN d THEN d[n__title] ELSE Str(c.name))
            ELSE IF k = n_slug
            THEN Str(slugify(IF n__slug \in DOMAIN d THEN d[n__slug].v
                             ELSE IF n__title \in DOMAIN d THEN d[n__title].v
                             ELSE c.name))
            ELSE IF k \in DOMAIN tv THEN tv[k]
            ELSE d[k]]

\* C2: a Page with a template, rendered with an engine available, returns the
\* engine's output for that template and the context in which a keyword
\* argument wins every key, then the body markup under "content", then the
\* derived title and slug, then the page's own fields.
C2_TemplateContext ==
    (/\ kind = "page"
     /\ out.op = "render"
     /\ hasattr(cls, hist.before, n_template)
     /\ truthy(getattr(cls, hist.before, n_template, PyNone))
     /\ truthy(getattr(cls, hist.before, n_engine, out.engine)))
    => /\ out.error = None
       /\ out.value =
            engine_render(getattr(cls, hist.before, n_engine, out.engine),
                          getattr(cls, hist.before, n_template, PyNone),
                          ExpectedContext(cls, hist.before, out.kwargs))

\* a render through the template in which the keyword arguments collide with
\* the body markup, the derived slug and a field of the page
C2_Witness ==
    /\ kind = "page"
    /\ out.op = "render"
    /\ out.error = None
    /\ out.calls = {"markup", "template"}
    /\ n_content \in DOMAIN out.kwargs
    /\ hist.before[n_content].v # <<>>
    /\ n_note \in DOMAIN hist.before
    /\ n__title \in DOMAIN hist.before
    /\ out.value.v.context[n_content] = out.kwargs[n_content]
    /\ out.value.v.context[n_slug] = out.kwargs[n_slug]
    /\ out.value.v.context[n_note] = out.kwargs[n_note]
    /\ out.value.v.context[n_title] = hist.before[n__title]

\* the number of lines at the start of `lines` that all match base_matcher
RECURSIVE HeaderRun(_)
HeaderRun(lines) ==
    IF lines = <<>> \/ ~base_matcher(Head(lines)) THEN 0
    ELSE 1 + HeaderRun(Tail(lines))

\* C3: parse_content returns as attributes only the contiguous run of
\* `key: value` lines at the very start of the text, and as body the whole rest
\* of the text, stripped: a `word: text` line after the first non-matching line
\* is body.
C3_HeaderOnlyAtStart ==
    (kind = "legacy" /\ out.op = "parse_content")
    => LET lines == split(src, NL)
           k == HeaderRun(lines)
       IN  /\ out.result.attrs = SubSeq(lines, 1, k)
           /\ out.result.content = strip(join(SubSeq(lines, k + 1, Len(lines)), NL))

\* C4: a `slug` header is stored under a renamed key that is neither a
\* property of Page nor the backing attribute of one; its value is kept
\* unchanged there and the page's slug is still the one derived from its title.
C4_ReservedRenamed ==
    (/\ kind = "page"
     /\ out.op = "__init__"
     /\ Constructed
     /\ src.t = "parsed"
     /\ n_slug \in HeaderNames(src))
    => /\ \E k \in DOMAIN obj.d \ (Page_readonly \cup {n_title, n_slug,
                                                        n__title, n__slug}) :
            obj.d[k].t = "str" /\ obj.d[k].v = HeaderValue(src, n_slug)
       /\ Page_slug(cls, obj.d).value.v = slugify(Page_title(cls, obj.d).v)

\* whether a line of the document is a `title: ...` header
LegacyHasTitleHeader(doc) ==
    LET lines == split(doc, NL) IN
    \E i \in 1..Len(lines) :
        /\ base_matcher(lines[i])
        /\ lower(SubSeq(lines[i], 1, WordPrefix(lines[i]))) = n_title

\* the default name a variant configures, else its class name
VariantDefaultName(c) ==
    IF n_title \in DOMAIN c.attrs THEN c.attrs[n_title].v
    ELSE IF n_name \in DOMAIN c.attrs THEN c.attrs[n_name].v
    ELSE c.name

\* C5: a Page whose source has no title header has as title the default name
\* its variant configures, else its class name, and never an empty title.
C5_DefaultTitle ==
    /\ (kind = "legacy" /\ obj.error = None /\ ~LegacyHasTitleHeader(src))
       => LET title == legacy_getattr(cls, obj.d, n_title, PyNone) IN
          /\ title.t = "str"
          /\ title.v = VariantDefaultName(cls)
          /\ title.v # <<>>
    /\ (/\ kind = "page" /\ Constructed /\ out.op = "__init__"
        /\ (src.t = "parsed" => n_title \notin HeaderNames(src)))
       => Page_title(cls, obj.d).v = cls.name

SlugForbidden == {"!", "[", "]", "(", ")"} \cup UpperChars
SlugClean(s) == \A i \in 1..Len(s) : s[i] \notin SlugForbidden

\* C6: the slug read from a Page contains none of ! [ ] ( ) and no uppercase
\* letter, whatever the title or the slug it was given.
C6_SlugClean ==
    /\ (kind = "legacy" /\ obj.error = None) => SlugClean(obj.d[n_slug].v)
    /\ (kind = "page" /\ out.op = "slug") => SlugClean(out.value.v)
    /\ (kind = "page" /\ out.op = "to_dict") => SlugClean(out.value[n_slug].v)

\* a legacy Page built from a title with capitals, a space and punctuation
C6_Witness ==
    /\ kind = "legacy"
    /\ obj.error = None
    /\ n_title \in DOMAIN obj.d
    /\ obj.d[n_title].t = "str"
    /\ obj.d[n_title].v = <<"H", "i", " ", "(", "A", ")", "!">>
    /\ obj.d[n_slug].v = <<"h", "i", "_", "a">>

\* C7: construction lower-cases each header key; under the key `tags`, with
\* no configuration of the variant, it stores the value split on ", " with
\* each element lower-cased, and under any other key the trimmed string.
C7_ListAttrsDefaultTags ==
    (/\ kind = "page"
     /\ out.op = "__init__"
     /\ Constructed
     /\ src.t = "parsed")
    => /\ n_tags \in HeaderNames(src)
          => /\ n_tags \in DOMAIN obj.d
             /\ obj.d[n_tags].t = "list"
             /\ obj.d[n_tags].v =
                    LET parts == split(HeaderValue(src, n_tags), COMMA) IN
                    [j \in 1..Len(parts) |-> lower(parts[j])]
       /\ n_note \in HeaderNames(src)
          => /\ n_note \in DOMAIN obj.d
             /\ obj.d[n_note].t = "str"
             /\ obj.d[n_note].v = strip(HeaderValue(src, n_note))

\* C8: discovery over N documents yields N pages, one per document and keyed
\* by its location, each of the Collection's content type (the base Page when
\* not overridden) and each with collection_title equal to the Collection's
\* derived title.
C8_OnePagePerDocument ==
    (kind = "collection" /\ obj.error = None)
    => /\ Cardinality(DOMAIN obj.pages) = Len(src.v)
       /\ DOMAIN obj.pages = {src.v[i] : i \in 1..Len(src.v)}
       /\ \A loc \in DOMAIN obj.pages :
            /\ obj.pages[loc].type =
                 (IF n_content_type \in DOMAIN cls.attrs
                  THEN cls.attrs[n_content_type].v ELSE <<"P", "a", "g", "e">>)
            /\ obj.pages[loc].d[n_content_path].v = loc
            /\ obj.pages[loc].d[collection_prefix \o n_title].v =
                 (IF n_title \in DOMAIN cls.attrs THEN cls.attrs[n_title].v
                  ELSE cls.name)

\* a Collection that sets its own title and discovered every document
C8_Witness ==
    /\ kind = "collection"
    /\ obj.error = None
    /\ Cardinality(DOMAIN obj.pages) = MaxDocs
    /\ n_title \in DOMAIN cls.attrs
    /\ out.op = "pages"

\* C9: _render_content leaves every attribute of the page as it was, the
\* backing attributes of title and slug included.
C9_RenderNoSideEffect ==
    (kind = "page" /\ out.op = "render") => obj.d = hist.before

\* the extension with its leading dot
DottedExtension(c) ==
    LET e == c.attrs[n_extension].v IN
    IF e # <<>> /\ Head(e) = "." THEN e ELSE <<".">> \o e

====
